---- MODULE Spec2Model ----
(***************************************************************************)
(* RayForce: the Entity class (src/entities/entity.h, entity.cpp).         *)
(* One Entity, the PhysX actors it creates, the render buffer it submits   *)
(* to and the gameplay code (a subclass) that writes its protected fields. *)
(*                                                                         *)
(* A float is a pair <<kind, n>>: <<"fin", n>> is the number n, and        *)
(* <<"nan", 0>>, <<"inf", 0>> are the non-finite values.  Quaternion       *)
(* components, velocities and the mass are finite and kept as integers.    *)
(***************************************************************************)
EXTENDS Integers, Sequences, FiniteSets, TLC

VARIABLES
    alive,          \* the Entity object is constructed and not yet destroyed
    worldMatrix,    \* entity.h:13  Matrix worldMatrix (no initializer)
    rotationQuat,   \* entity.h:14  <<x, y, z, w>>
    position,       \* entity.h:16
    rotation,       \* entity.h:17  Euler angles, degrees
    scale,          \* entity.h:18
    velocity,       \* entity.h:19
    model,          \* entity.h:22
    modelID,        \* entity.h:23
    mass,           \* entity.h:26
    hitbox,         \* entity.h:33  index into actors, or NullActor
    actors,         \* the PxRigidDynamic objects createRigidDynamic has returned
    releaseCalls,   \* number of PxRigidDynamic::release calls so far
    attachCalls,    \* number of SetHitbox calls with a non-null geometry so far
    renderBuffer,   \* what AddModelToRenderBuffer has been given
    logged,         \* what the last operation logged ("none" or "warn")
    lastOp,         \* the operation that produced this state
    lastArgs,       \* the arguments that operation was called with
    prevOp,         \* the operation before it
    ops             \* number of operations since construction

entityVars == <<worldMatrix, rotationQuat, position, rotation, scale, velocity,
                model, modelID, mass, hitbox>>
worldVars  == <<actors, releaseCalls, renderBuffer>>
vars == <<alive, entityVars, worldVars, attachCalls, logged, lastOp, lastArgs, prevOp, ops>>

---------------------------------------------------------------------------
(* Bounds *)

\* SetHitbox calls with a non-null geometry in one run
MaxAttach == 2
\* Render submissions kept in the render buffer in one run
MaxRender == 1
\* operations (of the Entity, of gameplay code, of the simulation) in one run
MaxOps == 5

---------------------------------------------------------------------------
(* Values *)

Fin(n) == <<"fin", n>>
NaN    == <<"nan", 0>>
Inf    == <<"inf", 0>>

isfinite(f) == f[1] = "fin"

Vec3(x, y, z) == <<Fin(x), Fin(y), Fin(z)>>
Origin == Vec3(0, 0, 0)

\* positions the constructor and gameplay code supply
PosSet == { Origin, Vec3(5, 5, 5), <<Inf, Fin(0), Fin(0)>>, <<Fin(0), NaN, Fin(0)>> }
\* positions the simulation moves a body to
StepPosSet == { Vec3(1, 2, 3) }

IdentityQuat == <<0, 0, 0, 1>>
\* unit quaternions: the identity and the half turn about the x axis
QuatSet == { IdentityQuat, <<1, 0, 0, 0>> }

ZeroVec == <<0, 0, 0>>
\* velocities gameplay code supplies
VelSet  == { <<2, 0, 0>> }
\* linear and angular velocities the simulation gives a body
StepVelSet == { <<0, -1, 0>> }
StepAngSet == { <<0, 0, 1>> }
EulerSet == { <<90, 0, 0>> }
MassSet == { -1, 0 }

ModelIDs == { "crate" }
Geoms    == { "box" }
NullGeom  == "nullptr"
NullActor == 0
This == "entity"

---------------------------------------------------------------------------
(* Collaborators of the Entity *)

\* ModelManager::GetModel: the Model resource registered under a model id
GetModel(id) == <<"model", id>>
NullModel == <<"model", "nullptr">>

\* ModelManager::GetModelMaterial: the PxMaterial registered under a model id
GetModelMaterial(id) == <<"material", id>>

\* RenderManager::AddModelToRenderBuffer: append one (model, matrix) instance
AddModelToRenderBuffer(buf, m, matrix) == Append(buf, [model |-> m, matrix |-> matrix])

\* what an uninitialized Matrix may hold
GarbageMatrices ==
    { [i \in 1..16 |-> Fin(0)],
      [i \in 1..16 |-> IF i \in {13, 14, 15} THEN NaN ELSE Fin(7)] }

---------------------------------------------------------------------------
(* Pure functions *)

\* atan2f(y, x) * RAD2DEG on the arguments unit quaternions with integer
\* components produce
Atan2Deg(y, x) ==
    CASE y = 0 /\ x >= 0 -> 0
      [] y = 0 /\ x < 0  -> 180
      [] y > 0 /\ x = 0  -> 90
      [] y < 0 /\ x = 0  -> -90
      [] y > 0 /\ x > 0  -> 45
      [] y > 0 /\ x < 0  -> 135
      [] y < 0 /\ x > 0  -> -45
      [] OTHER           -> -135

\* asinf(y) * RAD2DEG for y in {-1, 0, 1}
AsinDeg(y) == 90 * y

Clamp(y) == IF y > 1 THEN 1 ELSE IF y < -1 THEN -1 ELSE y

\* raymath QuaternionToEuler, each angle scaled by RAD2DEG (entity.cpp:40-43)
QuaternionToEuler(q) ==
    LET x == q[1]  y == q[2]  z == q[3]  w == q[4]
        x0 == 2 * (w * x + y * z)
        x1 == 1 - 2 * (x * x + y * y)
        y0 == Clamp(2 * (w * y - z * x))
        z0 == 2 * (w * z + x * y)
        z1 == 1 - 2 * (y * y + z * z)
    IN  <<Atan2Deg(x0, x1), AsinDeg(y0), Atan2Deg(z0, z1)>>

\* PxMat44(PxTransform): the columns of the rotation matrix of q, then p
PxMat44(transform) ==
    LET x == transform.q[1]  y == transform.q[2]
        z == transform.q[3]  w == transform.q[4]
        x2 == x + x  y2 == y + y  z2 == z + z
        xx == x2 * x  yy == y2 * y  zz == z2 * z
        xy == x2 * y  xz == x2 * z  xw == x2 * w
        yz == y2 * z  yw == y2 * w  zw == z2 * w
    IN  [ column0 |-> <<Fin(1 - yy - zz), Fin(xy + zw), Fin(xz - yw), Fin(0)>>,
          column1 |-> <<Fin(xy - zw), Fin(1 - xx - zz), Fin(yz + xw), Fin(0)>>,
          column2 |-> <<Fin(xz + yw), Fin(yz - xw), Fin(1 - xx - yy), Fin(0)>>,
          column3 |-> <<transform.p[1], transform.p[2], transform.p[3], Fin(1)>> ]

\* ToRaylibMatrix with the PxMat44 read row by row: the translation lands in
\* m3, m7, m11 instead of m12, m13, m14
ToRaylibMatrix_RowMajor(physxMat) ==
    << physxMat.column0[1], physxMat.column1[1], physxMat.column2[1], physxMat.column3[1],
       physxMat.column0[2], physxMat.column1[2], physxMat.column2[2], physxMat.column3[2],
       physxMat.column0[3], physxMat.column1[3], physxMat.column2[3], physxMat.column3[3],
       physxMat.column0[4], physxMat.column1[4], physxMat.column2[4], Fin(1) >>

\* entity.cpp:50-69: the Raylib Matrix <<m0, ..., m15>> of a PxMat44
ToRaylibMatrix(physxMat) ==
    << physxMat.column0[1], physxMat.column0[2], physxMat.column0[3], physxMat.column0[4],
       physxMat.column1[1], physxMat.column1[2], physxMat.column1[3], physxMat.column1[4],
       physxMat.column2[1], physxMat.column2[2], physxMat.column2[3], physxMat.column2[4],
       physxMat.column3[1], physxMat.column3[2], physxMat.column3[3], Fin(1) >>

\* entity.cpp:113
SanitizePosition(pos) == IF ~isfinite(pos[1]) THEN Origin ELSE pos

\* SanitizeMass with the test mass < 0.0f: a zero mass is kept
SanitizeMass_KeepsZero(m) == IF m < 0 THEN 1 ELSE m

\* entity.cpp:114
SanitizeMass(m) == IF m <= 0 THEN 1 ELSE m

---------------------------------------------------------------------------
(* Construction *)

\* Entity::Entity without the position(pos) initializer: the position keeps
\* its default member initializer
Entity_DefaultPosition(pos, _modelID) ==
    [ rotationQuat |-> <<0, 0, 0, 1>>,
      position     |-> Origin,
      rotation     |-> <<0, 0, 0>>,
      scale        |-> <<1, 1, 1>>,
      velocity     |-> <<0, 0, 0>>,
      model        |-> GetModel(_modelID),
      modelID      |-> _modelID,
      mass         |-> 10,
      hitbox       |-> NullActor ]

\* Entity::Entity with the default member initializers of entity.h
Entity(pos, _modelID) ==
    [ rotationQuat |-> <<0, 0, 0, 1>>,
      position     |-> pos,
      rotation     |-> <<0, 0, 0>>,
      scale        |-> <<1, 1, 1>>,
      velocity     |-> <<0, 0, 0>>,
      model        |-> GetModel(_modelID),
      modelID      |-> _modelID,
      mass         |-> 10,
      hitbox       |-> NullActor ]

Init ==
    \E pos \in PosSet, id \in ModelIDs, garbage \in GarbageMatrices :
        LET e == Entity(pos, id) IN
        /\ alive = TRUE
        /\ worldMatrix = garbage
        /\ rotationQuat = e.rotationQuat
        /\ position = e.position
        /\ rotation = e.rotation
        /\ scale = e.scale
        /\ velocity = e.velocity
        /\ model = e.model
        /\ modelID = e.modelID
        /\ mass = e.mass
        /\ hitbox = e.hitbox
        /\ actors = <<>>
        /\ releaseCalls = 0
        /\ attachCalls = 0
        /\ renderBuffer = <<>>
        /\ logged = "none"
        /\ lastOp = "Entity"
        /\ lastArgs = <<pos, id>>
        /\ prevOp = "none"
        /\ ops = 0

Op(name, args) ==
    /\ ops < MaxOps
    /\ ops' = ops + 1
    /\ lastOp' = name
    /\ lastArgs' = args
    /\ prevOp' = lastOp

---------------------------------------------------------------------------
(* Operations of the Entity *)

\* entity.cpp:33-73: what PhysicsUpdate reads from the actor and derives
Pulled(actor) ==
    LET transform == actor.globalPose
        physxMat  == PxMat44(transform)
        v         == actor.linearVelocity
    IN  [ position     |-> transform.p,
          rotationQuat |-> transform.q,
          rotation     |-> QuaternionToEuler(transform.q),
          worldMatrix  |-> ToRaylibMatrix(physxMat),
          velocity     |-> v ]

PullFrame == <<alive, scale, model, modelID, mass, hitbox, worldVars, attachCalls>>

\* PhysicsUpdate without the hitbox != nullptr test: with no actor it reads
\* the pose of a default PxTransform
PhysicsUpdate_Unguarded ==
    /\ alive
    /\ LET s == IF hitbox # NullActor
                THEN Pulled(actors[hitbox])
                ELSE Pulled([globalPose |-> [p |-> Origin, q |-> IdentityQuat],
                             linearVelocity |-> ZeroVec])
       IN  /\ position' = s.position
           /\ rotationQuat' = s.rotationQuat
           /\ rotation' = s.rotation
           /\ worldMatrix' = s.worldMatrix
           /\ velocity' = s.velocity
    /\ logged' = "none"
    /\ Op("PhysicsUpdate", <<>>)
    /\ UNCHANGED PullFrame

\* PhysicsUpdate adding the actor's velocity to the Entity's instead of
\* assigning it
PhysicsUpdate_AddsVelocity ==
    /\ alive
    /\ IF hitbox # NullActor
       THEN LET s == Pulled(actors[hitbox])
            IN  /\ position' = s.position
                /\ rotationQuat' = s.rotationQuat
                /\ rotation' = s.rotation
                /\ worldMatrix' = s.worldMatrix
                /\ velocity' = [i \in 1..3 |-> velocity[i] + s.velocity[i]]
       ELSE UNCHANGED <<position, rotationQuat, rotation, worldMatrix, velocity>>
    /\ logged' = "none"
    /\ Op("PhysicsUpdate", <<>>)
    /\ UNCHANGED PullFrame

\* PhysicsUpdate converting the quaternion to Euler angles before it has
\* assigned the new quaternion
PhysicsUpdate_StaleEuler ==
    /\ alive
    /\ IF hitbox # NullActor
       THEN LET s == Pulled(actors[hitbox])
            IN  /\ position' = s.position
                /\ rotationQuat' = s.rotationQuat
                /\ rotation' = QuaternionToEuler(rotationQuat)
                /\ worldMatrix' = s.worldMatrix
                /\ velocity' = s.velocity
       ELSE UNCHANGED <<position, rotationQuat, rotation, worldMatrix, velocity>>
    /\ logged' = "none"
    /\ Op("PhysicsUpdate", <<>>)
    /\ UNCHANGED PullFrame

\* PhysicsUpdate that also takes the scale from the diagonal of the matrix
PhysicsUpdate_WritesScale ==
    /\ alive
    /\ IF hitbox # NullActor
       THEN LET s == Pulled(actors[hitbox])
            IN  /\ position' = s.position
                /\ rotationQuat' = s.rotationQuat
                /\ rotation' = s.rotation
                /\ worldMatrix' = s.worldMatrix
                /\ velocity' = s.velocity
                /\ scale' = <<s.worldMatrix[1][2], s.worldMatrix[6][2], s.worldMatrix[11][2]>>
       ELSE UNCHANGED <<position, rotationQuat, rotation, worldMatrix, velocity, scale>>
    /\ logged' = "none"
    /\ Op("PhysicsUpdate", <<>>)
    /\ UNCHANGED <<alive, model, modelID, mass, hitbox, worldVars, attachCalls>>

\* Entity::PhysicsUpdate
PhysicsUpdate ==
    /\ alive
    /\ IF hitbox # NullActor
       THEN LET s == Pulled(actors[hitbox])
            IN  /\ position' = s.position
                /\ rotationQuat' = s.rotationQuat
                /\ rotation' = s.rotation
                /\ worldMatrix' = s.worldMatrix
                /\ velocity' = s.velocity
       ELSE UNCHANGED <<position, rotationQuat, rotation, worldMatrix, velocity>>
    /\ logged' = "none"
    /\ Op("PhysicsUpdate", <<>>)
    /\ UNCHANGED PullFrame

\* Sync that also stops the actor's rotation
Sync_ResetsAngularVelocity ==
    /\ alive
    /\ IF hitbox # NullActor
       THEN actors' = [actors EXCEPT
                ![hitbox].globalPose = [p |-> position, q |-> rotationQuat],
                ![hitbox].linearVelocity = velocity,
                ![hitbox].angularVelocity = <<0, 0, 0>>]
       ELSE UNCHANGED actors
    /\ logged' = "none"
    /\ Op("Sync", <<>>)
    /\ UNCHANGED <<alive, entityVars, releaseCalls, renderBuffer, attachCalls>>

\* Sync without the setLinearVelocity call
Sync_PoseOnly ==
    /\ alive
    /\ IF hitbox # NullActor
       THEN actors' = [actors EXCEPT
                ![hitbox].globalPose = [p |-> position, q |-> rotationQuat]]
       ELSE UNCHANGED actors
    /\ logged' = "none"
    /\ Op("Sync", <<>>)
    /\ UNCHANGED <<alive, entityVars, releaseCalls, renderBuffer, attachCalls>>

\* Entity::Sync
Sync ==
    /\ alive
    /\ IF hitbox # NullActor
       THEN actors' = [actors EXCEPT
                ![hitbox].globalPose = [p |-> position, q |-> rotationQuat],
                ![hitbox].linearVelocity = velocity]
       ELSE UNCHANGED actors
    /\ logged' = "none"
    /\ Op("Sync", <<>>)
    /\ UNCHANGED <<alive, entityVars, releaseCalls, renderBuffer, attachCalls>>

\* Entity::Render
Render ==
    /\ alive
    /\ Len(renderBuffer) < MaxRender
    /\ IF model # NullModel
       THEN renderBuffer' = AddModelToRenderBuffer(renderBuffer, model, worldMatrix)
       ELSE UNCHANGED renderBuffer
    /\ logged' = "none"
    /\ Op("Render", <<>>)
    /\ UNCHANGED <<alive, entityVars, actors, releaseCalls, attachCalls>>

\* PxPhysics::createRigidDynamic(initialTransform): a new actor at rest
createRigidDynamic(initialTransform) ==
    [ createdAt       |-> initialTransform,
      globalPose      |-> initialTransform,
      linearVelocity  |-> <<0, 0, 0>>,
      angularVelocity |-> <<0, 0, 0>>,
      mass            |-> 1,
      shapes          |-> <<>>,
      userData        |-> "nullptr",
      sleepThreshold  |-> 0,
      released        |-> FALSE ]

\* initialTransform taking its orientation from the Entity's quaternion
InitialTransform_UsesRotationQuat(pos) == [p |-> pos, q |-> rotationQuat]

\* entity.cpp:117-118: the current position with the identity rotation
InitialTransform(pos) == [p |-> pos, q |-> <<0, 0, 0, 1>>]

\* the new actor without the userData assignment
CreateActor_NoUserData(initialTransform) == createRigidDynamic(initialTransform)

\* entity.cpp:121-123: the new actor, linked back to this Entity
CreateActor(initialTransform) ==
    [createRigidDynamic(initialTransform) EXCEPT !.userData = This]

\* a shape that replaces the shapes the actor has
AttachShape_Replaces(actor, geometry) ==
    [actor EXCEPT !.shapes =
        << [ geometry      |-> geometry,
             material      |-> GetModelMaterial(modelID),
             contactOffset |-> 2,
             restOffset    |-> 0 ] >>]

\* entity.cpp:127-132: createExclusiveShape adds a shape of the geometry and
\* the model's material to the actor; offsets in hundredths
AttachShape(actor, geometry) ==
    [actor EXCEPT !.shapes = Append(@,
        [ geometry      |-> geometry,
          material      |-> GetModelMaterial(modelID),
          contactOffset |-> 2,
          restOffset    |-> 0 ])]

\* Finalize without the setAngularVelocity call
Finalize_KeepsAngularVelocity(actor, m) ==
    [actor EXCEPT !.mass = m,
                  !.linearVelocity = <<0, 0, 0>>,
                  !.sleepThreshold = 20]

\* Finalize that also places the actor at the Entity's position
Finalize_SetsPose(actor, m) ==
    [actor EXCEPT !.globalPose = InitialTransform(SanitizePosition(position)),
                  !.mass = m,
                  !.linearVelocity = <<0, 0, 0>>,
                  !.angularVelocity = <<0, 0, 0>>,
                  !.sleepThreshold = 20]

\* entity.cpp:135-140: mass, velocities at rest, sleep threshold (hundredths)
Finalize(actor, m) ==
    [actor EXCEPT !.mass = m,
                  !.linearVelocity = <<0, 0, 0>>,
                  !.angularVelocity = <<0, 0, 0>>,
                  !.sleepThreshold = 20]

\* SetHitbox without the hitbox == nullptr test: every call creates an actor
SetHitboxGeometry_AlwaysCreates(geometry) ==
    LET pos1  == SanitizePosition(position)
        mass1 == SanitizeMass(mass)
        initialTransform == InitialTransform(pos1)
        create  == TRUE
        actors1 == IF create
                   THEN Append(actors, CreateActor(initialTransform))
                   ELSE actors
        hitbox1 == IF create THEN Len(actors1) ELSE hitbox
    IN  /\ position' = pos1
        /\ mass' = mass1
        /\ hitbox' = hitbox1
        /\ actors' = [actors1 EXCEPT
                ![hitbox1] = Finalize(AttachShape(@, geometry), mass1)]
        /\ attachCalls' = attachCalls + 1
        /\ logged' = "none"
        /\ Op("SetHitbox", <<geometry>>)
        /\ UNCHANGED <<alive, worldMatrix, rotationQuat, rotation, scale, velocity,
                       model, modelID, releaseCalls, renderBuffer>>

\* Entity::SetHitbox with a non-null geometry (entity.cpp:110-140)
SetHitboxGeometry(geometry) ==
    LET pos1  == SanitizePosition(position)
        mass1 == SanitizeMass(mass)
        initialTransform == InitialTransform(pos1)
        create  == hitbox = NullActor
        actors1 == IF create
                   THEN Append(actors, CreateActor(initialTransform))
                   ELSE actors
        hitbox1 == IF create THEN Len(actors1) ELSE hitbox
    IN  /\ position' = pos1
        /\ mass' = mass1
        /\ hitbox' = hitbox1
        /\ actors' = [actors1 EXCEPT
                ![hitbox1] = Finalize(AttachShape(@, geometry), mass1)]
        /\ attachCalls' = attachCalls + 1
        /\ logged' = "none"
        /\ Op("SetHitbox", <<geometry>>)
        /\ UNCHANGED <<alive, worldMatrix, rotationQuat, rotation, scale, velocity,
                       model, modelID, releaseCalls, renderBuffer>>

\* SetHitbox testing the geometry after the validation of entity.cpp:113-114
SetHitboxNull_AfterValidation ==
    /\ position' = SanitizePosition(position)
    /\ mass' = SanitizeMass(mass)
    /\ logged' = "warn"
    /\ Op("SetHitboxNull", <<NullGeom>>)
    /\ UNCHANGED <<alive, worldMatrix, rotationQuat, rotation, scale, velocity,
                   model, modelID, hitbox, worldVars, attachCalls>>

\* Entity::SetHitbox with a null geometry (entity.cpp:105-108)
SetHitboxNull ==
    /\ logged' = "warn"
    /\ Op("SetHitboxNull", <<NullGeom>>)
    /\ UNCHANGED <<alive, entityVars, worldVars, attachCalls>>

\* Entity::SetHitbox
SetHitbox ==
    /\ alive
    /\ \E pgeometry \in Geoms \cup {NullGeom} :
          IF pgeometry = NullGeom
          THEN SetHitboxNull
          ELSE attachCalls < MaxAttach /\ SetHitboxGeometry(pgeometry)

\* Entity::Update, the base implementation
Update ==
    /\ alive
    /\ logged' = "none"
    /\ Op("Update", <<>>)
    /\ UNCHANGED <<alive, entityVars, worldVars, attachCalls>>

\* Entity::Init, the base implementation
EntityInit ==
    /\ alive
    /\ lastOp = "Entity"
    /\ logged' = "none"
    /\ Op("Init", <<>>)
    /\ UNCHANGED <<alive, entityVars, worldVars, attachCalls>>

\* ~Entity without the release call
Destroy_NoRelease ==
    /\ alive
    /\ alive' = FALSE
    /\ hitbox' = NullActor
    /\ logged' = "none"
    /\ Op("Destroy", <<>>)
    /\ UNCHANGED <<worldMatrix, rotationQuat, position, rotation, scale, velocity,
                   model, modelID, mass, worldVars, attachCalls>>

\* Entity::~Entity
Destroy ==
    /\ alive
    /\ alive' = FALSE
    /\ IF hitbox # NullActor
       THEN /\ actors' = [actors EXCEPT ![hitbox].released = TRUE]
            /\ releaseCalls' = releaseCalls + 1
            /\ hitbox' = NullActor
       ELSE UNCHANGED <<actors, releaseCalls, hitbox>>
    /\ logged' = "none"
    /\ Op("Destroy", <<>>)
    /\ UNCHANGED <<worldMatrix, rotationQuat, position, rotation, scale, velocity,
                   model, modelID, mass, renderBuffer, attachCalls>>

---------------------------------------------------------------------------
(* The environment: gameplay code of a subclass and the simulation *)

GameplayFrame == <<alive, worldMatrix, scale, model, modelID, hitbox, worldVars, attachCalls>>

WritePosition ==
    /\ alive
    /\ \E p \in PosSet : position' = p
    /\ logged' = "none" /\ Op("Write", <<>>)
    /\ UNCHANGED <<GameplayFrame, rotationQuat, rotation, velocity, mass>>

WriteRotationQuat ==
    /\ alive
    /\ \E q \in QuatSet : rotationQuat' = q
    /\ logged' = "none" /\ Op("Write", <<>>)
    /\ UNCHANGED <<GameplayFrame, position, rotation, velocity, mass>>

WriteRotation ==
    /\ alive
    /\ \E e \in EulerSet : rotation' = e
    /\ logged' = "none" /\ Op("WriteRotation", <<>>)
    /\ UNCHANGED <<GameplayFrame, position, rotationQuat, velocity, mass>>

WriteVelocity ==
    /\ alive
    /\ \E v \in VelSet : velocity' = v
    /\ logged' = "none" /\ Op("Write", <<>>)
    /\ UNCHANGED <<GameplayFrame, position, rotationQuat, rotation, mass>>

WriteMass ==
    /\ alive
    /\ \E m \in MassSet : mass' = m
    /\ logged' = "none" /\ Op("Write", <<>>)
    /\ UNCHANGED <<GameplayFrame, position, rotationQuat, rotation, velocity>>

\* PxScene::simulate / fetchResults: the simulation moves every actor that
\* has not been released
Step ==
    /\ \E p \in StepPosSet, q \in QuatSet, v \in StepVelSet, w \in StepAngSet :
          actors' = [i \in DOMAIN actors |->
              IF actors[i].released
              THEN actors[i]
              ELSE [actors[i] EXCEPT
                       !.globalPose = [p |-> p, q |-> q],
                       !.linearVelocity = v,
                       !.angularVelocity = w]]
    /\ logged' = "none" /\ Op("Step", <<>>)
    /\ UNCHANGED <<alive, entityVars, releaseCalls, renderBuffer, attachCalls>>

Next ==
    \/ PhysicsUpdate
    \/ Sync
    \/ Render
    \/ SetHitbox
    \/ Update
    \/ EntityInit
    \/ Destroy
    \/ WritePosition
    \/ WriteRotationQuat
    \/ WriteRotation
    \/ WriteVelocity
    \/ WriteMass
    \/ Step

Spec == Init /\ [][Next]_vars

---------------------------------------------------------------------------
(* Properties *)

HasBody == hitbox # NullActor

NonFinite(pos) == \E k \in 1..3 : ~isfinite(pos[k])

Translation(matrix) == <<matrix[13], matrix[14], matrix[15]>>

\* C1: on an Entity without a physical body PhysicsUpdate and Sync change no
\* field of the Entity and nothing in the physical world.
C1_NoBodySyncIsNoOp ==
    [][ (lastOp' \in {"PhysicsUpdate", "Sync"} /\ ~HasBody)
            => UNCHANGED <<entityVars, actors, releaseCalls>> ]_vars

\* a position written by gameplay code, (5,5,5), is still there after a
\* PhysicsUpdate on an Entity without a body
C1_Witness ==
    /\ lastOp = "PhysicsUpdate" /\ prevOp = "Write"
    /\ ~HasBody /\ alive
    /\ position = Vec3(5, 5, 5)

\* C2: a PhysicsUpdate right after a Sync leaves position, orientation and
\* velocity as they were pushed.
C2_PushThenPullRoundTrip ==
    [][ (lastOp = "Sync" /\ lastOp' = "PhysicsUpdate" /\ HasBody)
            => /\ position' = position
               /\ rotationQuat' = rotationQuat
               /\ velocity' = velocity ]_vars

\* Sync then PhysicsUpdate with a gameplay-written velocity on the Entity
C2_Witness ==
    /\ lastOp = "PhysicsUpdate" /\ prevOp = "Sync"
    /\ HasBody
    /\ velocity = <<2, 0, 0>>
    /\ position = Vec3(5, 5, 5)

\* C3: a second PhysicsUpdate with no operation in between leaves position,
\* orientation, worldMatrix and velocity as the first one set them.
C3_PullIsIdempotent ==
    [][ (lastOp = "PhysicsUpdate" /\ lastOp' = "PhysicsUpdate" /\ HasBody)
            => /\ position' = position
               /\ rotationQuat' = rotationQuat
               /\ worldMatrix' = worldMatrix
               /\ velocity' = velocity ]_vars

\* two PhysicsUpdate calls in a row after the simulation moved the body
C3_Witness ==
    /\ lastOp = "PhysicsUpdate" /\ prevOp = "PhysicsUpdate"
    /\ HasBody
    /\ position = Vec3(1, 2, 3)
    /\ velocity = <<0, -1, 0>>

\* C4: SetHitbox with a null geometry logs a warning and changes nothing: no
\* field of the Entity (body reference, position, mass), no actor, no new actor.
C4_NullGeometryAborts ==
    [][ lastOp' = "SetHitboxNull"
            => /\ logged' = "warn"
               /\ UNCHANGED <<entityVars, actors, releaseCalls>> ]_vars

\* a null geometry given to an Entity that has a body, a non-finite position
\* and a mass of zero
C4_Witness ==
    /\ lastOp = "SetHitboxNull" /\ logged = "warn"
    /\ HasBody
    /\ ~isfinite(position[1])
    /\ mass <= 0

\* the same on an Entity without a body and with a non-positive mass
C4_WitnessNoBody ==
    /\ lastOp = "SetHitboxNull" /\ logged = "warn"
    /\ ~HasBody /\ mass <= 0

\* C5: SetHitbox with a geometry on an Entity without a body whose position
\* has a non-finite component sets the position to the origin and creates
\* the body at the origin.
C5_NonFinitePositionCreatesAtOrigin ==
    [][ (lastOp' = "SetHitbox" /\ ~HasBody /\ NonFinite(position))
            => /\ position' = Origin
               /\ actors'[hitbox'].createdAt.p = Origin ]_vars

\* C6: after SetHitbox with a geometry the actor's mass and the Entity's
\* mass are the same positive value: a mass <= 0 is replaced by a positive
\* one, any other mass is used unchanged.
C6_MassSanitized ==
    [][ lastOp' = "SetHitbox"
            => /\ actors'[hitbox'].mass = mass'
               /\ mass' > 0
               /\ (mass > 0 => mass' = mass) ]_vars

\* SetHitbox on an Entity whose mass gameplay code had set to zero or less
C6_Witness ==
    /\ lastOp = "SetHitbox" /\ prevOp = "Write"
    /\ mass = 1
    /\ actors[hitbox].mass = 1

\* C7: createRigidDynamic is called at most once, by the first SetHitbox
\* with a geometry, and from then on the body reference stays that actor
\* while the Entity lives.
C7_OneBodyPerEntity ==
    /\ [](Len(actors) <= 1)
    /\ []((alive /\ attachCalls > 0) => (HasBody /\ Len(actors) = 1))
    /\ []((alive /\ attachCalls = 0) => (~HasBody /\ Len(actors) = 0))
    /\ [][ (HasBody /\ alive') => hitbox' = hitbox ]_vars

\* a second SetHitbox with a geometry has run
C7_Witness ==
    /\ alive /\ attachCalls = 2
    /\ lastOp = "SetHitbox" /\ prevOp = "SetHitbox"
    /\ hitbox = 1 /\ Len(actors) = 1

\* C8: release is called only by the destructor, once if an actor was
\* created and not at all otherwise, and no actor changes after it.
C8_ReleasedExactlyOnce ==
    /\ [](alive => (releaseCalls = 0 /\ \A i \in DOMAIN actors : ~actors[i].released))
    /\ [](~alive => (releaseCalls = Len(actors)
                       /\ \A i \in DOMAIN actors : actors[i].released))
    /\ [][ ~alive => UNCHANGED <<actors, releaseCalls, hitbox>> ]_vars

\* the simulation has stepped after an Entity with a body was destroyed
C8_Witness ==
    /\ ~alive /\ releaseCalls = 1
    /\ lastOp = "Step" /\ prevOp = "Destroy"

\* an Entity that never had a body was destroyed
C8_WitnessNoBody ==
    /\ ~alive /\ releaseCalls = 0 /\ Len(actors) = 0
    /\ lastOp = "Destroy"

\* C9: the constructor yields the given position, zero velocity, identity
\* orientation, zero Euler rotation, unit scale, a positive mass, the model
\* the ModelManager resolves from the model id, and no body.
C9_Constructed ==
    lastOp = "Entity"
        => /\ position = lastArgs[1]
           /\ velocity = <<0, 0, 0>>
           /\ rotationQuat = <<0, 0, 0, 1>>
           /\ rotation = <<0, 0, 0>>
           /\ scale = <<1, 1, 1>>
           /\ mass > 0
           /\ modelID = lastArgs[2]
           /\ model = GetModel(lastArgs[2])
           /\ hitbox = NullActor
           /\ actors = <<>>

\* an Entity constructed at (5,5,5)
C9_Witness ==
    /\ lastOp = "Entity" /\ alive
    /\ lastArgs[1] = Vec3(5, 5, 5)
    /\ position = Vec3(5, 5, 5)

\* C10: right after PhysicsUpdate on an Entity with a body, position,
\* orientation and velocity are the actor's pose and linear velocity, the
\* translation of worldMatrix is the position and m15 is 1.
C10_PullPostcondition ==
    (lastOp = "PhysicsUpdate" /\ HasBody)
        => /\ position = actors[hitbox].globalPose.p
           /\ rotationQuat = actors[hitbox].globalPose.q
           /\ velocity = actors[hitbox].linearVelocity
           /\ Translation(worldMatrix) = position
           /\ worldMatrix[16] = Fin(1)

\* PhysicsUpdate overwrote what gameplay code wrote after the simulation
\* had moved the body
C10_Witness ==
    /\ lastOp = "PhysicsUpdate" /\ prevOp = "Write"
    /\ HasBody
    /\ position = Vec3(1, 2, 3)
    /\ velocity = <<0, -1, 0>>
    /\ Translation(worldMatrix) = Vec3(1, 2, 3)

\* C11: right after SetHitbox with a geometry the actor's linear and angular
\* velocity are zero, and a PhysicsUpdate right after it sets the Entity's
\* velocity to zero.
C11_AttachStartsAtRest ==
    /\ lastOp = "SetHitbox"
        => /\ actors[hitbox].linearVelocity = <<0, 0, 0>>
           /\ actors[hitbox].angularVelocity = <<0, 0, 0>>
    /\ (lastOp = "PhysicsUpdate" /\ prevOp = "SetHitbox")
        => velocity = <<0, 0, 0>>

\* a repeated SetHitbox on a body the simulation had set moving, on an
\* Entity that holds a gameplay-written velocity
C11_Witness ==
    /\ lastOp = "SetHitbox" /\ prevOp = "Step"
    /\ attachCalls = 2
    /\ velocity = <<2, 0, 0>>

\* PhysicsUpdate right after a SetHitbox on such an Entity
C11_WitnessPull ==
    /\ lastOp = "PhysicsUpdate" /\ prevOp = "SetHitbox"
    /\ worldMatrix \notin GarbageMatrices
    /\ velocity = <<0, 0, 0>>

\* C12: while the Entity lives its body has as many shapes as SetHitbox was
\* called with a geometry, no call removes or replaces a shape, and a call
\* with a null geometry adds none.
C12_ShapesAccumulate ==
    /\ [](alive => IF HasBody
                   THEN Len(actors[hitbox].shapes) = attachCalls
                   ELSE attachCalls = 0)
    /\ [][ (HasBody /\ alive')
              => /\ Len(actors'[hitbox].shapes) >= Len(actors[hitbox].shapes)
                 /\ SubSeq(actors'[hitbox].shapes, 1, Len(actors[hitbox].shapes))
                        = actors[hitbox].shapes ]_vars
    /\ [][ lastOp' = "SetHitboxNull" => UNCHANGED <<actors, attachCalls>> ]_vars

\* two SetHitbox calls with a geometry and one with a null geometry
C12_Witness ==
    /\ alive /\ HasBody
    /\ attachCalls = 2
    /\ Len(actors[hitbox].shapes) = 2
    /\ lastOp = "SetHitboxNull"

\* C13: the first SetHitbox with a geometry creates the actor with the
\* Entity's position, as the call's validation left it, and the identity
\* orientation, whatever the Entity's quaternion is.
C13_CreatedWithIdentityOrientation ==
    [][ (lastOp' = "SetHitbox" /\ ~HasBody)
            => /\ actors'[hitbox'].createdAt = [p |-> position', q |-> IdentityQuat]
               /\ actors'[hitbox'].globalPose = [p |-> position', q |-> IdentityQuat]
               /\ rotationQuat' = rotationQuat ]_vars

\* the first SetHitbox on an Entity whose quaternion is not the identity
C13_Witness ==
    /\ lastOp = "SetHitbox" /\ attachCalls = 1
    /\ rotationQuat # IdentityQuat
    /\ actors[hitbox].createdAt.q = IdentityQuat
    /\ actors[hitbox].createdAt.p = Vec3(5, 5, 5)

\* C14: Sync on an Entity with a body sets the actor's pose to (position,
\* rotationQuat) and its linear velocity to velocity, and changes nothing
\* else of the actor and no field of the Entity.
C14_SyncFrame ==
    [][ (lastOp' = "Sync" /\ HasBody)
            => /\ actors' = [actors EXCEPT
                     ![hitbox].globalPose = [p |-> position, q |-> rotationQuat],
                     ![hitbox].linearVelocity = velocity]
               /\ actors'[hitbox].angularVelocity = actors[hitbox].angularVelocity
               /\ actors'[hitbox].mass = actors[hitbox].mass
               /\ actors'[hitbox].shapes = actors[hitbox].shapes
               /\ UNCHANGED <<entityVars, releaseCalls>> ]_vars

\* Sync on a body the simulation had set rotating
C14_Witness ==
    /\ lastOp = "Sync" /\ prevOp = "Step"
    /\ HasBody
    /\ actors[hitbox].angularVelocity = <<0, 0, 1>>
    /\ actors[hitbox].globalPose.p = Vec3(5, 5, 5)
    /\ actors[hitbox].linearVelocity = velocity

\* C15: after PhysicsUpdate on an Entity with a body the Euler rotation is
\* the conversion of the quaternion, (0,0,0) for the identity and (180,0,0)
\* for the half turn about x; Sync takes the actor's orientation from the
\* quaternion, so a written Euler rotation never reaches the actor.
C15_EulerIsDerived ==
    /\ []((lastOp = "PhysicsUpdate" /\ HasBody)
            => /\ rotation = QuaternionToEuler(rotationQuat)
               /\ (rotationQuat = <<0, 0, 0, 1>> => rotation = <<0, 0, 0>>)
               /\ (rotationQuat = <<1, 0, 0, 0>> => rotation = <<180, 0, 0>>))
    /\ [][ (lastOp' = "Sync" /\ HasBody)
            => actors'[hitbox].globalPose.q = rotationQuat ]_vars
    /\ [][ lastOp' = "WriteRotation" => UNCHANGED <<actors, rotationQuat>> ]_vars

\* PhysicsUpdate overwrote an Euler rotation gameplay code had written
C15_Witness ==
    /\ lastOp = "PhysicsUpdate" /\ prevOp = "WriteRotation"
    /\ HasBody
    /\ rotation \notin EulerSet

\* Sync after gameplay code wrote the Euler rotation
C15_WitnessSync ==
    /\ lastOp = "Sync" /\ prevOp = "WriteRotation"
    /\ HasBody
    /\ rotation \in EulerSet
    /\ actors[hitbox].globalPose.q = IdentityQuat

\* C16: the body of a living Entity carries that Entity as userData, from
\* its creation on, and no actor that is not released refers to a destroyed
\* Entity.
C16_BackReference ==
    /\ (alive /\ HasBody) => actors[hitbox].userData = This
    /\ ~alive => \A i \in DOMAIN actors :
                    actors[i].userData = This => actors[i].released

\* a body that went through a second SetHitbox and a Sync
C16_Witness ==
    /\ alive /\ HasBody
    /\ attachCalls = 2 /\ lastOp = "Sync"
    /\ actors[hitbox].userData = This

\* the Entity was destroyed and its actor released
C16_WitnessDestroyed ==
    /\ ~alive /\ Len(actors) = 1
    /\ actors[1].userData = This /\ actors[1].released

\* C17: no operation changes the scale, the model id or the model.
C17_VisualSideUnchanged ==
    [][ UNCHANGED <<scale, modelID, model>> ]_vars

\* Render after a PhysicsUpdate that read a turned body
C17_Witness ==
    /\ lastOp = "Render" /\ prevOp = "PhysicsUpdate"
    /\ HasBody
    /\ rotationQuat = <<1, 0, 0, 0>>
    /\ scale = <<1, 1, 1>>
    /\ model = GetModel(modelID)

\* the matrices PhysicsUpdate can assign
PullMatrices ==
    { ToRaylibMatrix(PxMat44([p |-> p, q |-> q])) :
          p \in PosSet \cup StepPosSet, q \in QuatSet }

\* C18: every matrix Render has submitted was assigned by a PhysicsUpdate.
C18_SubmittedMatrixWasPulled ==
    \A i \in DOMAIN renderBuffer : renderBuffer[i].matrix \in PullMatrices

\* C19: a repeated SetHitbox with a geometry leaves the actor's pose as it
\* was.
C19_ReattachKeepsPose ==
    [][ (lastOp' = "SetHitbox" /\ HasBody)
            => /\ hitbox' = hitbox
               /\ actors'[hitbox].globalPose = actors[hitbox].globalPose ]_vars

\* a repeated SetHitbox that left the Entity at the origin and the body
\* where the simulation had moved it
C19_Witness ==
    /\ lastOp = "SetHitbox" /\ prevOp = "Write"
    /\ attachCalls = 2
    /\ position = Origin
    /\ actors[hitbox].globalPose.p = Vec3(1, 2, 3)

====
